---- MODULE Spec2Model ----
(***************************************************************************)
(* Corpus API (src/main.py, src/database.py): the query construction of    *)
(* every endpoint, the grouping of concept rows, and the request handlers  *)
(* run against the store through get_db.                                   *)
(*                                                                         *)
(* Text is modelled by TLA+ strings: SQL text is the text the f-strings    *)
(* produce with runs of white space written as one blank; a Python         *)
(* Optional[str] is <<>> (None) or <<s>>, a required str is <<s>>.         *)
(***************************************************************************)
EXTENDS Integers, Sequences, FiniteSets, TLC

VARIABLES
    call,      \* the query construction or grouping applied: its input
    ret,       \* ... and what it returned
    applied,   \* ... once it has run
    store,     \* the rows of the view lemma_with_example
    pc,        \* per worker: where its handler stands
    req,       \* per worker: the request it serves
    conn,      \* per worker: the connection get_db gave it
    loc,       \* per worker: the handler's locals total and kernel_word
    sent,      \* per worker: the statements it has executed
    resp,      \* per worker: the response
    history    \* the exchange the client completed last

pureVars == <<call, ret, applied>>
serverVars == <<store, pc, req, conn, loc, sent, resp, history>>
vars == <<call, ret, applied, store, pc, req, conn, loc, sent, resp, history>>

(***************************************************************************)
(* Bounds of the model.                                                    *)
(***************************************************************************)
MaxPage == 2
MaxPageSize == 2
NumReq == 2

Procs == 1..NumReq

(***************************************************************************)
(* Python values.                                                          *)
(***************************************************************************)
None == <<>>
Some(s) == <<s>>

\* Truth value of an Optional[str]: `if lang_prefix:` is false for None and "".
Truthy(o) == o # None /\ o[1] # ""

\* A positional query parameter: a str or an int.
PStr(s) == [type |-> "str", str |-> s, int |-> 0]
PInt(n) == [type |-> "int", str |-> "", int |-> n]

\* sep.join(parts)
RECURSIVE Join(_, _)
Join(parts, sep) ==
    IF parts = <<>> THEN ""
    ELSE IF Len(parts) = 1 THEN parts[1]
    ELSE parts[1] \o sep \o Join(Tail(parts), sep)

UpperLetters == "ABCDEFGHIJKLMNOPQRSTUVWXYZ"
LowerLetters == "abcdefghijklmnopqrstuvwxyz"

RECURSIVE MapChar(_, _, _)
MapChar(c, from, to) ==
    IF from = "" THEN c
    ELSE IF Head(from) = c THEN Head(to)
    ELSE MapChar(c, Tail(from), Tail(to))

\* str.lower()
RECURSIVE Lower(_)
Lower(s) ==
    IF s = "" THEN ""
    ELSE MapChar(Head(s), UpperLetters, LowerLetters) \o Lower(Tail(s))

\* f"%{value}%"
LikePattern(value) == "%" \o value \o "%"

(***************************************************************************)
(* search_lemmas: the WHERE clause, the sort and the two statements.       *)
(***************************************************************************)
Columns ==
    "lemma_id, lang_prefix, lang_iso, lang_name, word_original, word_en, "
    \o "kernel_word, word_type, frequency, alternative_comment, definition"

SelectFrom == "SELECT " \o Columns \o " FROM lemma_with_example"
CountFrom == "SELECT COUNT(*) AS total FROM lemma_with_example"

\* One `if value: where_clauses.append(...); params.append(...)` step: the
\* pair <<where_clauses, params>> after it.
InterpolatedEq(acc, column, value) ==
    IF Truthy(value)
    THEN <<Append(acc[1], column \o " = '" \o value[1] \o "'"), acc[2]>>
    ELSE acc

AppendEq(acc, column, value) ==
    IF Truthy(value)
    THEN <<Append(acc[1], column \o " = %s"), Append(acc[2], PStr(value[1]))>>
    ELSE acc

AppendILike(acc, column, value) ==
    IF Truthy(value)
    THEN <<Append(acc[1], column \o " ILIKE %s"),
           Append(acc[2], PStr(LikePattern(value[1])))>>
    ELSE acc

SearchTwice(acc, value) ==
    IF Truthy(value)
    THEN <<Append(acc[1],
             "(word_original ILIKE %s OR word_en ILIKE %s OR definition ILIKE %s)"),
           acc[2] \o <<PStr(LikePattern(value[1])), PStr(LikePattern(value[1]))>> >>
    ELSE acc

AppendSearch(acc, value) ==
    IF Truthy(value)
    THEN <<Append(acc[1],
             "(word_original ILIKE %s OR word_en ILIKE %s OR definition ILIKE %s)"),
           acc[2] \o <<PStr(LikePattern(value[1])), PStr(LikePattern(value[1])),
                       PStr(LikePattern(value[1]))>> >>
    ELSE acc

\* where_sql from where_clauses
WhereSql(where_clauses) ==
    IF where_clauses = <<>> THEN "" ELSE "WHERE " \o Join(where_clauses, " AND ")

\* sort_map.get(sort_by, "lemma_id")
sort_map == [lemma_id |-> "lemma_id", word_original |-> "word_original",
             word_en |-> "word_en", frequency |-> "frequency"]

RawSortColumn(sort_by) == sort_by

sort_column(sort_by) ==
    IF sort_by \in DOMAIN sort_map THEN sort_map[sort_by] ELSE "lemma_id"

sort_direction(sort_dir) ==
    IF Lower(sort_dir) = "desc" THEN "DESC" ELSE "ASC"

\* offset = (page - 1) * page_size
Offset(page, page_size) == (page - 1) * page_size

\* list_params = params + [page_size, offset]
SwappedListParams(params, page_size, offset) ==
    params \o <<PInt(offset), PInt(page_size)>>

ListParams(params, page_size, offset) ==
    params \o <<PInt(page_size), PInt(offset)>>

CountSql(where_sql) == CountFrom \o " " \o where_sql \o ";"

ListSql(where_sql, order_by) ==
    SelectFrom \o " " \o where_sql \o " ORDER BY " \o order_by
    \o " LIMIT %s OFFSET %s;"

\* The statements and parameter lists of a paged endpoint.
Paged(acc, order_by, page, page_size) ==
    [count_sql   |-> CountSql(WhereSql(acc[1])),
     params      |-> acc[2],
     list_sql    |-> ListSql(WhereSql(acc[1]), order_by),
     list_params |-> ListParams(acc[2], page_size, Offset(page, page_size))]

search_lemmas_where(r) ==
    LET a0 == <<<<>>, <<>>>>
        a1 == AppendEq(a0, "lang_prefix", r.lang_prefix)
        a2 == AppendEq(a1, "word_type", r.word_type)
        a3 == AppendSearch(a2, r.search)
        a4 == AppendILike(a3, "word_original", r.word_original)
        a5 == AppendILike(a4, "word_en", r.word_en)
        a6 == AppendILike(a5, "kernel_word", r.kernel_word)
    IN  AppendILike(a6, "definition", r.definition)

search_lemmas_build(r) ==
    Paged(search_lemmas_where(r),
          sort_column(r.sort_by) \o " " \o sort_direction(r.sort_dir),
          r.page, r.page_size)

(***************************************************************************)
(* The other endpoints' statements.                                        *)
(***************************************************************************)
lemmas_by_kernel_build(r) ==
    Paged(AppendEq(<<<<"kernel_word = %s">>, <<PStr(r.kernel_word[1])>>>>,
                   "lang_prefix", r.lang_prefix),
          "lemma_id", r.page, r.page_size)

search_definitions_build(r) ==
    Paged(AppendEq(<<<<"definition ILIKE %s">>, <<PStr(LikePattern(r.q[1]))>>>>,
                   "lang_prefix", r.lang_prefix),
          "lemma_id", r.page, r.page_size)

lemmas_by_language_build(r) ==
    Paged(AppendEq(<<<<"lang_prefix = %s">>, <<PStr(r.lang_prefix[1])>>>>,
                   "word_type", r.word_type),
          "lemma_id", r.page, r.page_size)

concept_by_kernel_build(r) ==
    LET acc == AppendEq(<<<<"kernel_word = %s">>, <<PStr(r.kernel_word[1])>>>>,
                        "lang_prefix", r.lang_prefix)
    IN  [sql    |-> SelectFrom \o " " \o WhereSql(acc[1])
                    \o " ORDER BY lang_name, word_original;",
         params |-> acc[2]]

list_kernels_build(r) ==
    LET a1  == AppendEq(<<<<"kernel_word IS NOT NULL">>, <<>>>>,
                        "lang_prefix", r.lang_prefix)
        acc == AppendEq(a1, "word_type", r.word_type)
    IN  [sql    |-> "SELECT kernel_word, COUNT(*) AS n_lemmas FROM lemma_with_example "
                    \o WhereSql(acc[1])
                    \o " GROUP BY kernel_word HAVING COUNT(*) >= %s"
                    \o " ORDER BY n_lemmas DESC, kernel_word ASC;",
         params |-> Append(acc[2], PInt(r.min_count))]

PagedEndpoints ==
    {"search_lemmas", "lemmas_by_kernel", "search_definitions", "lemmas_by_language"}

Build(r) ==
    CASE r.endpoint = "search_lemmas"      -> search_lemmas_build(r)
      [] r.endpoint = "lemmas_by_kernel"   -> lemmas_by_kernel_build(r)
      [] r.endpoint = "search_definitions" -> search_definitions_build(r)
      [] r.endpoint = "lemmas_by_language" -> lemmas_by_language_build(r)
      [] r.endpoint = "concept_by_kernel"  -> concept_by_kernel_build(r)
      [] r.endpoint = "list_kernels"       -> list_kernels_build(r)

(***************************************************************************)
(* Rows of the view lemma_with_example.  A nullable column holds <<>>      *)
(* (NULL) or <<value>>.                                                    *)
(***************************************************************************)
MaxRows == 3

Lemma(id, prefix, iso, name, original, en, kernel, frequency, def) ==
    [lemma_id |-> id, lang_prefix |-> prefix, lang_iso |-> iso,
     lang_name |-> name, word_original |-> original, word_en |-> en,
     kernel_word |-> kernel, word_type |-> "adjective", frequency |-> frequency,
     alternative_comment |-> None, definition |-> def]

\* The corpus the model runs on: lemma i of the view, for i = 1, 2, ...
\* Lemmas 1 and 2 share a kernel_word, an English gloss and a frequency;
\* lemma 3 has no kernel_word.
ViewRow(i) ==
    CASE i = 1 -> Lemma(1, "SERB", "sr", "Serbian", "dobar", "good",
                        Some("good"), Some(5), Some("kind"))
      [] i = 2 -> Lemma(2, "POL", "pl", "Polish", "dobry", "good",
                        Some("good"), Some(5), None)
      [] i = 3 -> Lemma(3, "SERB", "sr", "Serbian", "brz", "fast",
                        None, Some(3), Some("quick"))
      [] i = 4 -> Lemma(4, "SERB", "sr", "Serbian", "blag", "good",
                        Some("good"), Some(5), Some("mild"))
      [] OTHER -> Lemma(i, "POL", "pl", "Polish", "szybki", "fast",
                        Some("fast"), None, None)

(***************************************************************************)
(* The grouping of concept rows by language (lemma_concept and             *)
(* concept_by_kernel hold the same loop).                                  *)
(***************************************************************************)
LemmaSummary(r) ==
    [lemma_id |-> r.lemma_id, word_original |-> r.word_original,
     word_en |-> r.word_en, word_type |-> r.word_type,
     frequency |-> r.frequency, alternative_comment |-> r.alternative_comment,
     definition |-> r.definition]

NewBucket(r) ==
    [language |-> [prefix |-> r.lang_prefix, iso |-> r.lang_iso,
                   name |-> r.lang_name],
     lemmas   |-> <<>>]

\* One pass of `for r in rows`: grouped is the dict's values in insertion order.
GroupRowOnce(grouped, r) ==
    LET g == IF \E i \in DOMAIN grouped : grouped[i].language.prefix = r.lang_prefix
             THEN grouped
             ELSE Append(grouped, NewBucket(r))
        k == CHOOSE i \in DOMAIN g : g[i].language.prefix = r.lang_prefix
    IN  IF \E j \in DOMAIN g[k].lemmas : g[k].lemmas[j] = LemmaSummary(r)
        THEN g
        ELSE [g EXCEPT ![k].lemmas = Append(@, LemmaSummary(r))]

GroupRow(grouped, r) ==
    LET g == IF \E i \in DOMAIN grouped : grouped[i].language.prefix = r.lang_prefix
             THEN grouped
             ELSE Append(grouped, NewBucket(r))
        k == CHOOSE i \in DOMAIN g : g[i].language.prefix = r.lang_prefix
    IN  [g EXCEPT ![k].lemmas = Append(@, LemmaSummary(r))]

RECURSIVE GroupRows(_, _)
GroupRows(grouped, rows) ==
    IF rows = <<>> THEN grouped
    ELSE GroupRows(GroupRow(grouped, Head(rows)), Tail(rows))

\* "total_lemmas": len(rows), "languages": list(grouped.values())
ConceptView(rows) ==
    [total_lemmas |-> Len(rows), languages |-> GroupRows(<<>>, rows)]

(***************************************************************************)
(* Text helpers used to read a statement back.                             *)
(***************************************************************************)
\* The positions at which sub occurs in s.
Occurrences(s, sub) ==
    {i \in 1..(Len(s) - Len(sub) + 1) : SubSeq(s, i, i + Len(sub) - 1) = sub}

\* Position of the first occurrence of sub in s, 0 when there is none.
IndexOf(s, sub) ==
    LET occ == Occurrences(s, sub)
    IN  IF occ = {} THEN 0 ELSE CHOOSE i \in occ : \A j \in occ : i <= j

\* Number of occurrences of sub in s.
CountSub(s, sub) == Cardinality(Occurrences(s, sub))

\* s up to the first occurrence of sub (all of s when there is none).
Before(s, sub) ==
    LET k == IndexOf(s, sub) IN IF k = 0 THEN s ELSE SubSeq(s, 1, k - 1)

\* s after the first occurrence of sub ("" when there is none).
After(s, sub) ==
    LET k == IndexOf(s, sub)
    IN  IF k = 0 THEN "" ELSE SubSeq(s, k + Len(sub), Len(s))

\* s.split(sep)
RECURSIVE SplitBy(_, _)
SplitBy(s, sep) ==
    IF IndexOf(s, sep) = 0 THEN <<s>>
    ELSE <<Before(s, sep)>> \o SplitBy(After(s, sep), sep)

\* The predicates of a statement: the text after WHERE, up to the clause that
\* follows it.
WhereText(sql) ==
    Before(Before(Before(After(sql, " WHERE "), ";"), " ORDER BY "), " GROUP BY ")

\* The text between ORDER BY and LIMIT ("" when the statement has no ORDER BY).
OrderText(sql) == Before(Before(After(sql, " ORDER BY "), " LIMIT "), ";")

(***************************************************************************)
(* The store: what cur.execute(sql, params) followed by a fetch returns.   *)
(* A statement is read back from its text; its placeholders take the       *)
(* parameters in order.  Rows that ORDER BY leaves tied come in any order.  *)
(***************************************************************************)
NullableColumns == {"kernel_word", "definition", "alternative_comment"}

\* The value of a text column: <<>> for NULL.
TextOf(row, column) ==
    IF column \in NullableColumns THEN row[column] ELSE Some(row[column])

\* text LIKE pattern, with % for any run of characters and _ for any one.
RECURSIVE Like(_, _)
Like(text, pattern) ==
    IF pattern = "" THEN text = ""
    ELSE IF Head(pattern) = "%"
         THEN Like(text, Tail(pattern)) \/ (text # "" /\ Like(Tail(text), pattern))
    ELSE /\ text # ""
         /\ Head(pattern) = "_" \/ Head(pattern) = Head(text)
         /\ Like(Tail(text), Tail(pattern))

ILike(text, pattern) == Like(Lower(text), Lower(pattern))

\* One comparison, as its words: `column = %s`, `column ILIKE %s` or
\* `column IS NOT NULL`.
AtomHolds(row, t, param) ==
    CASE Len(t) = 4 -> row[t[1]] # None
      [] t[2] = "=" /\ t[1] = "lemma_id" -> row.lemma_id = param.int
      [] t[2] = "=" -> TextOf(row, t[1]) = Some(param.str)
      [] OTHER -> /\ TextOf(row, t[1]) # None
                  /\ ILike(TextOf(row, t[1])[1], param.str)

\* The comparisons of a fragment: one, or the members of a parenthesised OR.
AtomsOf(fragment) ==
    LET atoms == IF Head(fragment) = "("
                 THEN SplitBy(SubSeq(fragment, 2, Len(fragment) - 1), " OR ")
                 ELSE <<fragment>>
    IN  [i \in DOMAIN atoms |-> SplitBy(atoms[i], " ")]

\* The WHERE clause of a statement: its fragments, each as its comparisons.
ParsedWhere(sql) ==
    LET where     == WhereText(sql)
        fragments == IF where = "" THEN <<>> ELSE SplitBy(where, " AND ")
    IN  [j \in DOMAIN fragments |-> AtomsOf(fragments[j])]

HasPlaceholder(t) == t[Len(t)] = "%s"

\* The number of placeholders in fragments 1..j.
RECURSIVE Used(_, _)
Used(parsed, j) ==
    IF j = 0 THEN 0
    ELSE Used(parsed, j - 1)
         + Cardinality({i \in DOMAIN parsed[j] : HasPlaceholder(parsed[j][i])})

\* The parameter of comparison i of fragment j.
Arg(parsed, params, j, i) ==
    IF HasPlaceholder(parsed[j][i])
    THEN params[Used(parsed, j - 1)
                + Cardinality({k \in 1..i : HasPlaceholder(parsed[j][k])})]
    ELSE PInt(0)

RowMatches(row, parsed, params) ==
    \A j \in DOMAIN parsed :
        \E i \in DOMAIN parsed[j] :
            AtomHolds(row, parsed[j][i], Arg(parsed, params, j, i))

Matching(rows, sql, params) ==
    LET parsed == ParsedWhere(sql)
    IN  {row \in rows : RowMatches(row, parsed, params)}

\* The store accepts a statement whose placeholders are as many as its
\* parameters and whose comparisons it can read.
KnownColumns ==
    {"lemma_id", "lang_prefix", "word_type", "word_original", "word_en",
     "kernel_word", "definition"}

Executable(sql, params) ==
    LET parsed == ParsedWhere(sql)
    IN  /\ CountSub(sql, "%s") = Len(params)
        /\ \A j \in DOMAIN parsed :
              \A i \in DOMAIN parsed[j] :
                  LET t == parsed[j][i]
                  IN  /\ t[1] \in KnownColumns
                      /\ \/ Len(t) = 3 /\ t[2] \in {"=", "ILIKE"} /\ t[3] = "%s"
                         \/ t = <<t[1], "IS", "NOT", "NULL">>

\* Collation: words compare letter by letter, ignoring case.
CharRank(c) == IndexOf(LowerLetters, MapChar(c, UpperLetters, LowerLetters))

RECURSIVE StrLess(_, _)
StrLess(x, y) ==
    IF y = "" THEN FALSE
    ELSE IF x = "" THEN TRUE
    ELSE IF Head(x) = Head(y) THEN StrLess(Tail(x), Tail(y))
    ELSE CharRank(Head(x)) < CharRank(Head(y))

\* a sorts before b on one column, ascending; NULL sorts after every value.
ColumnLess(a, b, column) ==
    CASE column \in {"lemma_id", "n_lemmas"} -> a[column] < b[column]
      [] column = "frequency" ->
            a.frequency # None /\ (b.frequency = None \/ a.frequency[1] < b.frequency[1])
      [] column \in NullableColumns ->
            a[column] # None /\ (b[column] = None \/ StrLess(a[column][1], b[column][1]))
      [] OTHER -> StrLess(a[column], b[column])

\* The sort keys of a statement, "column [ASC|DESC], ...", each as its words.
SortKeys(sql) ==
    LET order == OrderText(sql)
        keys  == IF order = "" THEN <<>> ELSE SplitBy(order, ", ")
    IN  [k \in DOMAIN keys |-> SplitBy(keys[k], " ")]

\* a must come before b under the sort keys.
RECURSIVE MustPrecede(_, _, _)
MustPrecede(a, b, keys) ==
    IF keys = <<>> THEN FALSE
    ELSE LET key  == Head(keys)
             desc == Len(key) = 2 /\ key[2] = "DESC"
             lt   == IF desc THEN ColumnLess(b, a, key[1]) ELSE ColumnLess(a, b, key[1])
             gt   == IF desc THEN ColumnLess(a, b, key[1]) ELSE ColumnLess(b, a, key[1])
         IN  lt \/ (~gt /\ MustPrecede(a, b, Tail(keys)))

\* Every order of the rows that the sort keys allow.
Orderings(rows, keys) ==
    {seq \in [1..Cardinality(rows) -> rows] :
        /\ \A i, j \in DOMAIN seq : i # j => seq[i] # seq[j]
        /\ \A i, j \in DOMAIN seq : i < j => ~MustPrecede(seq[j], seq[i], keys)}

\* seq[offset + 1 .. offset + limit]
Slice(seq, limit, offset) ==
    SubSeq(seq, offset + 1, IF offset + limit < Len(seq) THEN offset + limit ELSE Len(seq))

\* SELECT COUNT(*): the number of matching rows.
CountResult(rows, sql, params) == Cardinality(Matching(rows, sql, params))

\* SELECT ... ORDER BY ... [LIMIT %s OFFSET %s]: the results fetchall() may give.
SelectResults(rows, sql, params) ==
    LET all == Orderings(Matching(rows, sql, params), SortKeys(sql))
        n   == Len(params)
    IN  IF IndexOf(sql, " LIMIT %s OFFSET %s") = 0 THEN all
        ELSE {Slice(seq, params[n - 1].int, params[n].int) : seq \in all}

\* SELECT kernel_word, COUNT(*) ... GROUP BY kernel_word HAVING COUNT(*) >= %s
KernelResults(rows, sql, params) ==
    LET found  == Matching(rows, sql, params)
        groups == {[kernel_word |-> k,
                    n_lemmas |-> Cardinality({r \in found : r.kernel_word = k})] :
                      k \in {r.kernel_word : r \in found}}
    IN  Orderings({g \in groups : g.n_lemmas >= params[Len(params)].int},
                  SortKeys(sql))

(***************************************************************************)
(* The languages table, read by /languages and /stats/languages.           *)
(***************************************************************************)
Languages ==
    {[id |-> 1, prefix |-> "SERB", iso |-> "sr", name |-> "Serbian"],
     [id |-> 2, prefix |-> "POL", iso |-> "pl", name |-> "Polish"]}

list_languages_sql ==
    "SELECT id, prefix, iso_639_1 AS iso, name FROM languages ORDER BY name;"

stats_languages_sql ==
    "SELECT lang.name AS language, lang.iso_639_1 AS iso, COUNT(l.id) AS n_lemmas "
    \o "FROM lemmas l JOIN languages lang ON l.language_id = lang.id "
    \o "GROUP BY lang.name, lang.iso_639_1 ORDER BY n_lemmas DESC;"

LanguageResults == Orderings(Languages, SortKeys(list_languages_sql))

StatsResults(rows) ==
    LET counts == {[language |-> l.name, iso |-> l.iso,
                    n_lemmas |-> Cardinality({r \in rows : r.lang_prefix = l.prefix})] :
                      l \in {l \in Languages : \E r \in rows : r.lang_prefix = l.prefix}}
    IN  Orderings(counts, SortKeys(stats_languages_sql))

(***************************************************************************)
(* The handlers.                                                           *)
(***************************************************************************)
NoRequest == [endpoint |-> "none"]
NoResponse == [status |-> 0]
NoLocals == [total |-> 0, kernel_word |-> ""]

Response(body) == [status |-> 200, body |-> body]
HTTPException(status_code, detail) == [status |-> status_code, detail |-> detail]
\* An exception that is no HTTPException reaches the client as a 500.
ServerError == [status |-> 500, detail |-> "Internal Server Error"]

row_to_lemma(row) ==
    [lemma_id |-> row.lemma_id,
     language |-> [prefix |-> row.lang_prefix, iso |-> row.lang_iso,
                   name |-> row.lang_name],
     word_original |-> row.word_original, word_en |-> row.word_en,
     kernel_word |-> row.kernel_word, word_type |-> row.word_type,
     frequency |-> row.frequency,
     alternative_comment |-> row.alternative_comment,
     definition |-> row.definition]

Lemmas(rows) == [i \in DOMAIN rows |-> row_to_lemma(rows[i])]

\* The statement of get_lemma, and the first statement of lemma_concept.
get_lemma_sql == SelectFrom \o " WHERE lemma_id = %s;"

\* The second statement of lemma_concept.
sql_all ==
    SelectFrom \o " WHERE kernel_word = %s ORDER BY lang_name, word_original;"

\* get_db: `conn = get_connection()` on entry, `finally: conn.close()` on exit,
\* whether the block ended or raised.
get_db_enter(c, p) == [c EXCEPT ![p] = "open"]

get_db_without_finally(c, p, raised) ==
    IF raised THEN c ELSE [c EXCEPT ![p] = "closed"]

get_db_exit(c, p, raised) == [c EXCEPT ![p] = "closed"]

Executed(p, sql, params) ==
    [sent EXCEPT ![p] = Append(@, [sql |-> sql, params |-> params])]

\* The handler of p ends: the with block is left and the response goes out.
Finish(p, response, raised) ==
    /\ conn' = get_db_exit(conn, p, raised)
    /\ resp' = [resp EXCEPT ![p] = response]
    /\ pc' = [pc EXCEPT ![p] = "done"]

\* A request arrives at worker p; its handler enters `with get_db() as conn`.
Begin(p, r) ==
    /\ pc[p] = "idle"
    /\ req' = [req EXCEPT ![p] = r]
    /\ conn' = get_db_enter(conn, p)
    /\ pc' = [pc EXCEPT ![p] = "opened"]
    /\ UNCHANGED <<pureVars, store, loc, sent, resp, history>>

\* psycopg2.connect raises in get_connection: no connection was acquired.
ConnectFails(p, r) ==
    /\ pc[p] = "idle"
    /\ req' = [req EXCEPT ![p] = r]
    /\ resp' = [resp EXCEPT ![p] = ServerError]
    /\ pc' = [pc EXCEPT ![p] = "done"]
    /\ UNCHANGED <<pureVars, store, conn, loc, sent, history>>

\* cur.execute raises (a store or transport failure, or a statement the store
\* cannot run): the exception leaves the with block.
StoreFailure(p) ==
    /\ pc[p] \in {"opened", "counted", "looked"}
    /\ Finish(p, ServerError, TRUE)
    /\ UNCHANGED <<pureVars, store, req, loc, sent, history>>

\* The envelope of a paged endpoint.
PagedEnvelope(r, total, rows) ==
    LET page == [page |-> r.page, page_size |-> r.page_size, total |-> total,
                 results |-> Lemmas(rows)]
    IN  CASE r.endpoint = "search_lemmas" -> page
          [] r.endpoint = "lemmas_by_kernel" ->
                [kernel_word |-> r.kernel_word[1], lang_prefix |-> r.lang_prefix]
                @@ page
          [] r.endpoint = "search_definitions" ->
                [query |-> r.q[1], lang_prefix |-> r.lang_prefix] @@ page
          [] r.endpoint = "lemmas_by_language" ->
                [lang_prefix |-> r.lang_prefix[1], word_type |-> r.word_type] @@ page

\* cur.execute(count_sql, params); total = cur.fetchone()["total"]
PagedCount(p) ==
    /\ pc[p] = "opened"
    /\ req[p].endpoint \in PagedEndpoints
    /\ LET b == Build(req[p])
       IN  /\ Executable(b.count_sql, b.params)
           /\ loc' = [loc EXCEPT ![p].total = CountResult(store, b.count_sql, b.params)]
           /\ sent' = Executed(p, b.count_sql, b.params)
    /\ pc' = [pc EXCEPT ![p] = "counted"]
    /\ UNCHANGED <<pureVars, store, req, conn, resp, history>>

\* cur.execute(list_sql, list_params); rows = cur.fetchall(); return {...}
PagedList(p) ==
    /\ pc[p] = "counted"
    /\ LET b == Build(req[p])
       IN  /\ Executable(b.list_sql, b.list_params)
           /\ \E rows \in SelectResults(store, b.list_sql, b.list_params) :
                 Finish(p, Response(PagedEnvelope(req[p], loc[p].total, rows)), FALSE)
           /\ sent' = Executed(p, b.list_sql, b.list_params)
    /\ UNCHANGED <<pureVars, store, req, loc, history>>

\* get_lemma: one statement, then `if not row: raise HTTPException(404)`.
get_lemma_response(rows) ==
    IF rows = <<>> THEN HTTPException(404, "Lemma not found")
    ELSE Response(row_to_lemma(rows[1]))

GetLemma(p) ==
    /\ pc[p] = "opened"
    /\ req[p].endpoint = "get_lemma"
    /\ LET params == <<PInt(req[p].lemma_id)>>
       IN  /\ Executable(get_lemma_sql, params)
           /\ \E rows \in SelectResults(store, get_lemma_sql, params) :
                 Finish(p, get_lemma_response(rows), FALSE)
           /\ sent' = Executed(p, get_lemma_sql, params)
    /\ UNCHANGED <<pureVars, store, req, loc, history>>

\* lemma_concept after its first statement: "not_found" (no row), "no_kernel"
\* (`if not kernel_word`) or "ok".
ConflatedFocusCheck(rows) ==
    IF rows = <<>> \/ ~Truthy(rows[1].kernel_word) THEN "not_found" ELSE "ok"

FocusCheck(rows) ==
    IF rows = <<>> THEN "not_found"
    ELSE IF ~Truthy(rows[1].kernel_word) THEN "no_kernel"
    ELSE "ok"

\* lemma_concept, step 1: find the lemma and its kernel_word.
ConceptLookup(p) ==
    /\ pc[p] = "opened"
    /\ req[p].endpoint = "lemma_concept"
    /\ LET params == <<PInt(req[p].lemma_id)>>
       IN  /\ Executable(get_lemma_sql, params)
           /\ sent' = Executed(p, get_lemma_sql, params)
           /\ \E rows \in SelectResults(store, get_lemma_sql, params) :
                 CASE FocusCheck(rows) = "not_found" ->
                        /\ Finish(p, HTTPException(404, "Lemma not found"), TRUE)
                        /\ UNCHANGED loc
                   [] FocusCheck(rows) = "no_kernel" ->
                        /\ Finish(p, HTTPException(400,
                              "This lemma has no kernel_word defined, cannot build concept."),
                              TRUE)
                        /\ UNCHANGED loc
                   [] OTHER ->
                        /\ loc' = [loc EXCEPT ![p].kernel_word = rows[1].kernel_word[1]]
                        /\ pc' = [pc EXCEPT ![p] = "looked"]
                        /\ UNCHANGED <<conn, resp>>
    /\ UNCHANGED <<pureVars, store, req, history>>

\* lemma_concept, step 2: fetch all lemmas with the same kernel_word and group.
ConceptGroup(p) ==
    /\ pc[p] = "looked"
    /\ LET params == <<PStr(loc[p].kernel_word)>>
       IN  /\ Executable(sql_all, params)
           /\ sent' = Executed(p, sql_all, params)
           /\ \E rows \in SelectResults(store, sql_all, params) :
                 Finish(p, Response([focus_lemma_id |-> req[p].lemma_id,
                                     kernel_word |-> loc[p].kernel_word]
                                    @@ ConceptView(rows)), FALSE)
    /\ UNCHANGED <<pureVars, store, req, loc, history>>

\* concept_by_kernel: one statement, `if not rows: raise HTTPException(404)`,
\* then the grouping.
concept_by_kernel_always(r, rows) ==
    Response([kernel_word |-> r.kernel_word[1], lang_prefix |-> r.lang_prefix]
             @@ ConceptView(rows))

concept_by_kernel_response(r, rows) ==
    IF rows = <<>> THEN HTTPException(404, "No lemmas found for this kernel_word")
    ELSE Response([kernel_word |-> r.kernel_word[1], lang_prefix |-> r.lang_prefix]
                  @@ ConceptView(rows))

ConceptByKernel(p) ==
    /\ pc[p] = "opened"
    /\ req[p].endpoint = "concept_by_kernel"
    /\ LET b == concept_by_kernel_build(req[p])
       IN  /\ Executable(b.sql, b.params)
           /\ sent' = Executed(p, b.sql, b.params)
           /\ \E rows \in SelectResults(store, b.sql, b.params) :
                 Finish(p, concept_by_kernel_response(req[p], rows), FALSE)
    /\ UNCHANGED <<pureVars, store, req, loc, history>>

\* list_kernels: one statement; the rows are the response.
ListKernels(p) ==
    /\ pc[p] = "opened"
    /\ req[p].endpoint = "list_kernels"
    /\ LET b == list_kernels_build(req[p])
       IN  /\ Executable(b.sql, b.params)
           /\ sent' = Executed(p, b.sql, b.params)
           /\ \E rows \in KernelResults(store, b.sql, b.params) :
                 Finish(p, Response(rows), FALSE)
    /\ UNCHANGED <<pureVars, store, req, loc, history>>

\* list_languages and stats_languages: one fixed statement each.
ListLanguages(p) ==
    /\ pc[p] = "opened"
    /\ req[p].endpoint = "list_languages"
    /\ sent' = Executed(p, list_languages_sql, <<>>)
    /\ \E rows \in LanguageResults : Finish(p, Response(rows), FALSE)
    /\ UNCHANGED <<pureVars, store, req, loc, history>>

StatsLanguages(p) ==
    /\ pc[p] = "opened"
    /\ req[p].endpoint = "stats_languages"
    /\ sent' = Executed(p, stats_languages_sql, <<>>)
    /\ \E rows \in StatsResults(store) : Finish(p, Response(rows), FALSE)
    /\ UNCHANGED <<pureVars, store, req, loc, history>>

\* A step of the handler that worker p runs.
Handle(p) ==
    \/ PagedCount(p)
    \/ PagedList(p)
    \/ GetLemma(p)
    \/ ConceptLookup(p)
    \/ ConceptGroup(p)
    \/ ConceptByKernel(p)
    \/ ListKernels(p)
    \/ ListLanguages(p)
    \/ StatsLanguages(p)
    \/ StoreFailure(p)

(***************************************************************************)
(* Inputs of the query construction.                                       *)
(***************************************************************************)
DefaultPageSize == 20

Opt3 == {None, Some(""), Some("a")}
Opt4 == Opt3 \cup {Some("b")}
\* A required str (a path parameter, or q) is <<s>>.
Paths == {Some("a"), Some("b")}
SortBys == {"lemma_id", "word_original", "word_en", "frequency", "LEMMA_ID",
            "frequency; DROP TABLE lemmas"}
SortDirs == {"asc", "desc", "DESC", "Desc", "descending", ""}
Pages == 1..MaxPage
PageSizes == 1..MaxPageSize

\* GET /lemmas with every combination of filters and the default sort and page.
FilterRequests ==
    {[endpoint |-> "search_lemmas", lang_prefix |-> lp, search |-> se,
      word_original |-> wo, word_en |-> we, kernel_word |-> kw,
      definition |-> de, word_type |-> wt, sort_by |-> "lemma_id",
      sort_dir |-> "asc", page |-> 1, page_size |-> DefaultPageSize] :
        lp \in Opt4, se \in Opt4, wo \in Opt3, we \in Opt3, kw \in Opt3,
        de \in Opt3, wt \in Opt3}

\* GET /lemmas with every sort and page and at most the language filter.
SortRequests ==
    {[endpoint |-> "search_lemmas", lang_prefix |-> lp, search |-> None,
      word_original |-> None, word_en |-> None, kernel_word |-> None,
      definition |-> None, word_type |-> None, sort_by |-> sb,
      sort_dir |-> sd, page |-> pg, page_size |-> ps] :
        lp \in {None, Some("a")}, sb \in SortBys, sd \in SortDirs,
        pg \in Pages, ps \in PageSizes}

ByKernelRequests ==
    {[endpoint |-> "lemmas_by_kernel", kernel_word |-> kw, lang_prefix |-> lp,
      page |-> pg, page_size |-> ps] :
        kw \in Paths, lp \in Opt4, pg \in Pages, ps \in PageSizes}

DefinitionRequests ==
    {[endpoint |-> "search_definitions", q |-> q, lang_prefix |-> lp,
      page |-> pg, page_size |-> ps] :
        q \in Paths \cup {Some("")}, lp \in Opt4, pg \in Pages, ps \in PageSizes}

ByLanguageRequests ==
    {[endpoint |-> "lemmas_by_language", lang_prefix |-> lp, word_type |-> wt,
      page |-> pg, page_size |-> ps] :
        lp \in Paths, wt \in Opt4, pg \in Pages, ps \in PageSizes}

ConceptRequests ==
    {[endpoint |-> "concept_by_kernel", kernel_word |-> kw, lang_prefix |-> lp] :
        kw \in Paths, lp \in Opt4}

KernelsRequests ==
    {[endpoint |-> "list_kernels", lang_prefix |-> lp, word_type |-> wt,
      min_count |-> mc] : lp \in Opt4, wt \in Opt4, mc \in 1..MaxPageSize}

\* The row sequences handed to the grouping: any order, repeats included.
MaxGroupRows == 4

GroupCalls ==
    {[endpoint |-> "group_by_language", rows |-> rows] :
        rows \in UNION {[1..n -> {ViewRow(i) : i \in 1..MaxRows}] :
                           n \in 0..MaxGroupRows}}

BuildRequests ==
    FilterRequests \cup SortRequests \cup ByKernelRequests \cup DefinitionRequests
    \cup ByLanguageRequests \cup ConceptRequests \cup KernelsRequests

(***************************************************************************)
(* The query construction applied to one request.                          *)
(***************************************************************************)
\* The server at rest, over the corpus.
InitServer ==
    /\ store = {ViewRow(i) : i \in 1..MaxRows}
    /\ pc = [p \in Procs |-> "idle"]
    /\ req = [p \in Procs |-> NoRequest]
    /\ conn = [p \in Procs |-> "none"]
    /\ loc = [p \in Procs |-> NoLocals]
    /\ sent = [p \in Procs |-> <<>>]
    /\ resp = [p \in Procs |-> NoResponse]
    /\ history = <<>>

InitPure ==
    /\ call \in BuildRequests \cup GroupCalls
    /\ ret = <<>>
    /\ applied = FALSE
    /\ InitServer

BuildSearchLemmas ==
    /\ ~applied
    /\ call.endpoint = "search_lemmas"
    /\ ret' = search_lemmas_build(call)
    /\ applied' = TRUE
    /\ UNCHANGED <<call, serverVars>>

BuildLemmasByKernel ==
    /\ ~applied
    /\ call.endpoint = "lemmas_by_kernel"
    /\ ret' = lemmas_by_kernel_build(call)
    /\ applied' = TRUE
    /\ UNCHANGED <<call, serverVars>>

BuildSearchDefinitions ==
    /\ ~applied
    /\ call.endpoint = "search_definitions"
    /\ ret' = search_definitions_build(call)
    /\ applied' = TRUE
    /\ UNCHANGED <<call, serverVars>>

BuildLemmasByLanguage ==
    /\ ~applied
    /\ call.endpoint = "lemmas_by_language"
    /\ ret' = lemmas_by_language_build(call)
    /\ applied' = TRUE
    /\ UNCHANGED <<call, serverVars>>

BuildConceptByKernel ==
    /\ ~applied
    /\ call.endpoint = "concept_by_kernel"
    /\ ret' = concept_by_kernel_build(call)
    /\ applied' = TRUE
    /\ UNCHANGED <<call, serverVars>>

BuildListKernels ==
    /\ ~applied
    /\ call.endpoint = "list_kernels"
    /\ ret' = list_kernels_build(call)
    /\ applied' = TRUE
    /\ UNCHANGED <<call, serverVars>>

ApplyGrouping ==
    /\ ~applied
    /\ call.endpoint = "group_by_language"
    /\ ret' = ConceptView(call.rows)
    /\ applied' = TRUE
    /\ UNCHANGED <<call, serverVars>>

NextPure ==
    \/ ApplyGrouping
    \/ BuildSearchLemmas
    \/ BuildLemmasByKernel
    \/ BuildSearchDefinitions
    \/ BuildLemmasByLanguage
    \/ BuildConceptByKernel
    \/ BuildListKernels

SpecPure == InitPure /\ [][NextPure]_vars

(***************************************************************************)
(* Claims about the query construction (checked under SpecPure).          *)
(***************************************************************************)
BuiltFor(endpoints) == applied /\ call.endpoint \in endpoints

\* C1: in every paged endpoint, for every combination of filters, the COUNT
\* statement and the SELECT statement carry the same WHERE text, each has as
\* many placeholders as parameters, and the list parameters are the count
\* parameters followed by page_size and then offset.
C1_SamePredicates ==
    BuiltFor(PagedEndpoints) =>
        /\ WhereText(ret.count_sql) = WhereText(ret.list_sql)
        /\ ret.list_params =
               ret.params \o <<PInt(call.page_size),
                               PInt((call.page - 1) * call.page_size)>>
        /\ CountSub(ret.count_sql, "%s") = Len(ret.params)
        /\ CountSub(ret.list_sql, "%s") = Len(ret.list_params)

C1_Witness ==
    /\ BuiltFor({"lemmas_by_language"})
    /\ Truthy(call.word_type)
    /\ call.page = 2
    /\ Len(ret.list_params) = 4

AllowList == {"lemma_id", "word_original", "word_en", "frequency"}
DescSpellings == {"desc", "DESC", "Desc"}

\* C4: in GET /lemmas the column written into ORDER BY is the client's sort_by
\* when it is in the allow-list and lemma_id for every other string; the
\* direction is DESC exactly when sort_dir is a spelling of "desc".
C4_SortAllowList ==
    BuiltFor({"search_lemmas"}) =>
        OrderText(ret.list_sql) =
            (IF call.sort_by \in AllowList THEN call.sort_by ELSE "lemma_id")
            \o " "
            \o (IF call.sort_dir \in DescSpellings THEN "DESC" ELSE "ASC")

C4_Witness ==
    /\ BuiltFor({"search_lemmas"})
    /\ call.sort_by = "frequency; DROP TABLE lemmas"
    /\ call.sort_dir = "Desc"
    /\ OrderText(ret.list_sql) = "lemma_id DESC"

\* The request with every present filter value replaced by v, the sort key by
\* the allow-list key it resolves to, and the page by the first page of one row.
CanonOpt(o, v) == IF Truthy(o) THEN Some(v) ELSE None

Canon(r, v) ==
    [f \in DOMAIN r |->
        CASE f = "endpoint" -> r[f]
          [] f = "sort_by" -> IF r[f] \in AllowList THEN r[f] ELSE "lemma_id"
          [] f = "sort_dir" -> IF r[f] \in DescSpellings THEN "desc" ELSE "asc"
          [] f \in {"page", "page_size", "min_count"} -> 1
          [] f = "q" -> Some(v)
          [] f = "kernel_word" /\ r.endpoint # "search_lemmas" -> Some(v)
          [] f = "lang_prefix" /\ r.endpoint = "lemmas_by_language" -> Some(v)
          [] OTHER -> CanonOpt(r[f], v)]

SqlTexts(b) ==
    IF "sql" \in DOMAIN b THEN <<b.sql>> ELSE <<b.count_sql, b.list_sql>>

\* C5: the SQL text depends only on the endpoint, on which filters are present
\* and on the resolved sort column and direction: it is the text built for
\* any other request that agrees on these, whatever the values are.
C5_TextIndependentOfValues ==
    BuiltFor(PagedEndpoints \cup {"concept_by_kernel", "list_kernels"}) =>
        \A v \in {"a", "b"} : SqlTexts(ret) = SqlTexts(Build(Canon(call, v)))

C5_Witness ==
    /\ BuiltFor({"search_lemmas"})
    /\ call.lang_prefix = Some("b")
    /\ call.search = Some("a")
    /\ ret.params[1] = PStr("b")

\* The filters of GET /lemmas: the fragment each contributes and how often and
\* how its value is bound.
FilterNames ==
    {"lang_prefix", "word_type", "search", "word_original", "word_en",
     "kernel_word", "definition"}

FragmentOwner ==
    [f \in {"lang_prefix = %s", "word_type = %s",
            "(word_original ILIKE %s OR word_en ILIKE %s OR definition ILIKE %s)",
            "word_original ILIKE %s", "word_en ILIKE %s", "kernel_word ILIKE %s",
            "definition ILIKE %s"} |->
        CASE f = "lang_prefix = %s" -> "lang_prefix"
          [] f = "word_type = %s" -> "word_type"
          [] f = "word_original ILIKE %s" -> "word_original"
          [] f = "word_en ILIKE %s" -> "word_en"
          [] f = "kernel_word ILIKE %s" -> "kernel_word"
          [] f = "definition ILIKE %s" -> "definition"
          [] OTHER -> "search"]

ExpectedBinding(r, filter) ==
    CASE filter \in {"lang_prefix", "word_type"} -> <<PStr(r[filter][1])>>
      [] filter = "search" ->
            <<PStr("%" \o r.search[1] \o "%"), PStr("%" \o r.search[1] \o "%"),
              PStr("%" \o r.search[1] \o "%")>>
      [] OTHER -> <<PStr("%" \o r[filter][1] \o "%")>>

RECURSIVE ExpectedParams(_, _)
ExpectedParams(r, fragments) ==
    IF fragments = <<>> THEN <<>>
    ELSE ExpectedBinding(r, FragmentOwner[Head(fragments)])
         \o ExpectedParams(r, Tail(fragments))

\* C6: in GET /lemmas the WHERE clause holds one fragment per present filter,
\* joined by AND; its placeholders are as many as the parameters and are
\* bound, in fragment order, to the raw value (lang_prefix, word_type), to the
\* value wrapped in % (text filters), or three times to the wrapped value
\* (search); with no filter present the clause and the list are empty.
C6_PlaceholdersMatchParams ==
    BuiltFor({"search_lemmas"}) =>
        LET where     == WhereText(ret.count_sql)
            present   == {f \in FilterNames : Truthy(call[f])}
            fragments == IF where = "" THEN <<>> ELSE SplitBy(where, " AND ")
        IN  /\ (present = {}) <=> (where = "")
            /\ present = {} => ret.params = <<>>
            /\ where # "" => IndexOf(ret.count_sql, " WHERE " \o where \o ";") > 0
            /\ \A i \in DOMAIN fragments : fragments[i] \in DOMAIN FragmentOwner
            /\ (\A i \in DOMAIN fragments : fragments[i] \in DOMAIN FragmentOwner)
                  => /\ {FragmentOwner[fragments[i]] : i \in DOMAIN fragments} = present
                     /\ Len(fragments) = Cardinality(present)
                     /\ ret.params = ExpectedParams(call, fragments)
            /\ CountSub(where, "%s") = Len(ret.params)

C6_Witness ==
    /\ BuiltFor({"search_lemmas"})
    /\ \A f \in FilterNames : Truthy(call[f])
    /\ Len(ret.params) = 9
    /\ CountSub(ret.count_sql, "%s") = 9

(***************************************************************************)
(* Claims about the grouping (checked under SpecPure).                     *)
(***************************************************************************)
\* The language prefixes of rows, each once, in order of first appearance.
FirstSeen(rows) ==
    LET first == {i \in DOMAIN rows :
                    \A j \in 1..(i - 1) : rows[j].lang_prefix # rows[i].lang_prefix}
        Nth(k) == CHOOSE i \in first : Cardinality({j \in first : j <= i}) = k
    IN  [k \in 1..Cardinality(first) |-> rows[Nth(k)].lang_prefix]

OfPrefix(rows, prefix) ==
    LET Is(r) == r.lang_prefix = prefix IN SelectSeq(rows, Is)

RECURSIVE SumOfLengths(_)
SumOfLengths(buckets) ==
    IF buckets = <<>> THEN 0
    ELSE Len(Head(buckets).lemmas) + SumOfLengths(Tail(buckets))

\* C9: the grouping yields one bucket per distinct language prefix in order of
\* first appearance; a bucket holds exactly the rows of its prefix in input
\* order, repeats included; total_lemmas is the number of input rows and the
\* sum of the bucket lengths.
C9_GroupingByLanguage ==
    BuiltFor({"group_by_language"}) =>
        LET rows    == call.rows
            buckets == ret.languages
        IN  /\ [k \in DOMAIN buckets |-> buckets[k].language.prefix] = FirstSeen(rows)
            /\ \A k \in DOMAIN buckets :
                  LET mine == OfPrefix(rows, buckets[k].language.prefix)
                  IN  /\ Len(buckets[k].lemmas) = Len(mine)
                      /\ \A j \in DOMAIN mine :
                            /\ buckets[k].lemmas[j].lemma_id = mine[j].lemma_id
                            /\ buckets[k].lemmas[j].word_original = mine[j].word_original
            /\ ret.total_lemmas = Len(rows)
            /\ ret.total_lemmas = SumOfLengths(buckets)

\* Languages in the order [A, A, B, A], the first row repeated as the last:
\* buckets [A, B], three lemmas in A in input order.
C9_Witness ==
    /\ BuiltFor({"group_by_language"})
    /\ [i \in DOMAIN call.rows |-> call.rows[i].lemma_id] = <<1, 3, 2, 1>>
    /\ Len(ret.languages) = 2
    /\ ret.languages[1].language.prefix = "SERB"
    /\ [j \in DOMAIN ret.languages[1].lemmas |->
            ret.languages[1].lemmas[j].lemma_id] = <<1, 3, 1>>
    /\ ret.languages[2].language.prefix = "POL"
    /\ ret.total_lemmas = 4

(***************************************************************************)
(* The server and its clients.                                             *)
(***************************************************************************)
IdsBeyond == 1..(MaxRows + 1)

SearchRequests ==
    {[endpoint |-> "search_lemmas", lang_prefix |-> lp, search |-> se,
      word_original |-> None, word_en |-> None, kernel_word |-> None,
      definition |-> None, word_type |-> None, sort_by |-> sb,
      sort_dir |-> sd, page |-> pg, page_size |-> ps] :
        lp \in {None, Some("XX")}, se \in {None, Some("OO")},
        sb \in {"lemma_id", "frequency"}, sd \in {"asc", "DESC"},
        pg \in Pages, ps \in PageSizes}

OtherPagedRequests ==
    {[endpoint |-> "lemmas_by_kernel", kernel_word |-> kw, lang_prefix |-> None,
      page |-> pg, page_size |-> ps] :
        kw \in {Some("good"), Some("zzz")}, pg \in Pages, ps \in PageSizes}
    \cup
    {[endpoint |-> "search_definitions", q |-> Some("I"), lang_prefix |-> lp,
      page |-> pg, page_size |-> ps] :
        lp \in {None, Some("SERB")}, pg \in Pages, ps \in PageSizes}
    \cup
    {[endpoint |-> "lemmas_by_language", lang_prefix |-> Some("SERB"),
      word_type |-> wt, page |-> pg, page_size |-> ps] :
        wt \in {None, Some("noun")}, pg \in Pages, ps \in PageSizes}

LookupRequests ==
    {[endpoint |-> e, lemma_id |-> id] :
        e \in {"get_lemma", "lemma_concept"}, id \in IdsBeyond}
    \cup
    {[endpoint |-> "concept_by_kernel", kernel_word |-> kw, lang_prefix |-> lp] :
        kw \in {Some("good"), Some("zzz")}, lp \in {None, Some("SERB"), Some("XX")}}

UnpagedRequests ==
    {[endpoint |-> "list_kernels", lang_prefix |-> None, word_type |-> None,
      min_count |-> mc] : mc \in 1..MaxPageSize}
    \cup {[endpoint |-> "list_languages"], [endpoint |-> "stats_languages"]}

Requests ==
    SearchRequests \cup OtherPagedRequests \cup LookupRequests \cup UnpagedRequests

\* Two requests of one paging session: they differ in the page at most.
SameSession(r, first) ==
    /\ r.endpoint = first.endpoint
    /\ IF r.endpoint \in PagedEndpoints
       THEN [r EXCEPT !.page = 1] = [first EXCEPT !.page = 1]
       ELSE r = first

\* The client takes the response and the worker is free again.
Archive(p) ==
    /\ pc[p] = "done"
    /\ history' = <<[req |-> req[p], resp |-> resp[p]]>>
    /\ pc' = [pc EXCEPT ![p] = "idle"]
    /\ req' = [req EXCEPT ![p] = NoRequest]
    /\ conn' = [conn EXCEPT ![p] = "none"]
    /\ loc' = [loc EXCEPT ![p] = NoLocals]
    /\ sent' = [sent EXCEPT ![p] = <<>>]
    /\ resp' = [resp EXCEPT ![p] = NoResponse]
    /\ UNCHANGED <<pureVars, store>>

InitIdle ==
    /\ call = NoRequest
    /\ ret = <<>>
    /\ applied = FALSE
    /\ InitServer

\* One client that sends the requests of a session one after the other.
Next ==
    \/ \E r \in Requests :
          /\ history # <<>> => SameSession(r, history[1].req)
          /\ Begin(1, r) \/ ConnectFails(1, r)
    \/ Handle(1)
    \/ Archive(1)

Spec == InitIdle /\ [][Next]_vars

\* Clients in parallel, one request per worker.
ParallelRequests ==
    {r \in Requests :
        /\ r.endpoint \in PagedEndpoints => r.endpoint = "search_lemmas"
        /\ "page" \in DOMAIN r =>
              r.page = 1 /\ r.page_size = 1 /\ r.search = None
              /\ r.lang_prefix = None /\ r.sort_by = "lemma_id" /\ r.sort_dir = "asc"
        /\ "lang_prefix" \in DOMAIN r => r.lang_prefix = None
        /\ "min_count" \in DOMAIN r => r.min_count = 1
        /\ r.endpoint = "get_lemma" => r.lemma_id = MaxRows + 1
        /\ r.endpoint = "lemma_concept" => r.lemma_id \in {1, 3, MaxRows + 1}
        /\ r.endpoint = "concept_by_kernel" => r.kernel_word = Some("zzz")}

NextParallel ==
    \E p \in Procs :
        \/ \E r \in ParallelRequests : Begin(p, r) \/ ConnectFails(p, r)
        \/ Handle(p)

SpecParallel == InitIdle /\ [][NextParallel]_vars

(***************************************************************************)
(* Claims about the handlers.                                              *)
(***************************************************************************)
Finished(p, endpoint) ==
    pc[p] = "done" /\ req[p].endpoint = endpoint /\ resp[p].status # 500

LemmaIds(lemmas) == {lemmas[i].lemma_id : i \in DOMAIN lemmas}

Least(a, b) == IF a < b THEN a ELSE b

\* What is left of total rows from offset on, at most page_size of them.
Expected(r, total) ==
    LET offset == (r.page - 1) * r.page_size
    IN  IF total <= offset THEN 0 ELSE Least(r.page_size, total - offset)

\* Two successive answers of one paging session of GET /lemmas.
Successive ==
    /\ history # <<>>
    /\ Finished(1, "search_lemmas")
    /\ resp[1].status = 200
    /\ history[1].resp.status = 200
    /\ SameSession(req[1], history[1].req)
    /\ req[1].sort_by \in AllowList

\* C2: for fixed filters, a fixed allow-list sort_by, a fixed sort_dir and an
\* unchanged store, the pages of GET /lemmas hold every matching row exactly
\* once: a page holds what is left from its offset up to page_size rows (so the
\* lengths sum to total), two different pages share no row, and the same page
\* requested twice is the same slice.
C2_PagesPartitionTheRows ==
    Successive =>
        LET earlier == history[1].resp.body
            later   == resp[1].body
        IN  /\ Len(later.results) = Expected(req[1], later.total)
            /\ req[1].page = history[1].req.page =>
                  later.results = earlier.results
            /\ req[1].page # history[1].req.page =>
                  LemmaIds(later.results) \cap LemmaIds(earlier.results) = {}

\* The same under a sort key that ties no two rows: sort_by = lemma_id.
PagesPartitionUnderUniqueKey ==
    (Successive /\ req[1].sort_by = "lemma_id") => C2_PagesPartitionTheRows

Ceiling(a, b) == (a + b - 1) \div b

\* C3: every list endpoint with page and page_size answers with an envelope of
\* page, page_size, total, total_pages and results, where total_pages =
\* ceiling(total / page_size), results holds at most page_size entries from
\* offset (page - 1) * page_size, and results is empty when total = 0;
\* GET /kernels is one of these endpoints.
C3_PagedEnvelope ==
    /\ (pc[1] = "done" /\ resp[1].status = 200
        /\ req[1].endpoint \in PagedEndpoints) =>
          LET body == resp[1].body
          IN  /\ {"page", "page_size", "total", "total_pages", "results"}
                    \subseteq DOMAIN body
              /\ body.page = req[1].page
              /\ body.page_size = req[1].page_size
              /\ body.total_pages = Ceiling(body.total, body.page_size)
              /\ Len(body.results) = Expected(req[1], body.total)
              /\ body.total = 0 => body.results = <<>>
    /\ (pc[1] = "done" /\ resp[1].status = 200
        /\ req[1].endpoint = "list_kernels") =>
          {"page", "page_size"} \subseteq DOMAIN req[1]

\* The envelope the handlers do build: page, page_size, total and results.
EnvelopeWithoutTotalPages ==
    (pc[1] = "done" /\ resp[1].status = 200
     /\ req[1].endpoint \in PagedEndpoints) =>
        LET body == resp[1].body
        IN  /\ {"page", "page_size", "total", "results"} \subseteq DOMAIN body
            /\ "total_pages" \notin DOMAIN body
            /\ body.page = req[1].page
            /\ body.page_size = req[1].page_size
            /\ Len(body.results) = Expected(req[1], body.total)
            /\ body.total = 0 => body.results = <<>>

Focus(p) == {row \in store : row.lemma_id = req[p].lemma_id}

HasKernel(row) == row.kernel_word # None /\ row.kernel_word # Some("")

\* C7: GET /lemmas/{id}/concept looks the focus lemma up first.  No lemma of
\* that id: 404, and no second statement.  A lemma without kernel_word: 400,
\* and no second statement.  Otherwise the second statement is the grouping
\* query, its only predicate kernel_word = %s bound to the lemma's kernel_word,
\* ordered by lang_name, word_original; a 200 never carries an empty concept.
C7_ConceptResolvesFocusFirst ==
    \A p \in Procs :
        req[p].endpoint = "lemma_concept" =>
            /\ sent[p] # <<>> =>
                  /\ sent[p][1].sql = get_lemma_sql
                  /\ sent[p][1].params = <<PInt(req[p].lemma_id)>>
            /\ (\A row \in Focus(p) : ~HasKernel(row)) => Len(sent[p]) <= 1
            /\ Finished(p, "lemma_concept") =>
                  /\ Focus(p) = {} => resp[p].status = 404
                  /\ \A row \in Focus(p) :
                        IF ~HasKernel(row) THEN resp[p].status = 400
                        ELSE /\ resp[p].status = 200
                             /\ Len(sent[p]) = 2
                             /\ WhereText(sent[p][2].sql) = "kernel_word = %s"
                             /\ OrderText(sent[p][2].sql) = "lang_name, word_original"
                             /\ sent[p][2].params = <<PStr(row.kernel_word[1])>>
                             /\ resp[p].body.kernel_word = row.kernel_word[1]
                             /\ resp[p].body.total_lemmas >= 1
                             /\ resp[p].body.languages # <<>>

\* A lemma without kernel_word was asked for its concept and the answer is 400
\* after the one lookup.
C7_Witness ==
    /\ Finished(1, "lemma_concept")
    /\ \E row \in Focus(1) : ~HasKernel(row)
    /\ resp[1].status = 400
    /\ Len(sent[1]) = 1

KernelRows(r) ==
    {row \in store :
        /\ row.kernel_word = r.kernel_word
        /\ Truthy(r.lang_prefix) => row.lang_prefix = r.lang_prefix[1]}

\* C8: GET /lemmas/{id} answers 404 without a lemma object when no row has
\* the id and the projected lemma otherwise; GET /concepts/by_kernel/{k}
\* answers 404 exactly when no row matches kernel_word (and lang_prefix), so
\* its 200 has total_lemmas >= 1 and at least one language bucket.
C8_ZeroRowsIsNotFound ==
    \A p \in Procs :
        /\ Finished(p, "get_lemma") =>
              /\ Focus(p) = {} =>
                    resp[p].status = 404 /\ "body" \notin DOMAIN resp[p]
              /\ \A row \in Focus(p) :
                    /\ resp[p].status = 200
                    /\ resp[p].body.lemma_id = req[p].lemma_id
                    /\ resp[p].body.word_original = row.word_original
                    /\ resp[p].body.language.prefix = row.lang_prefix
        /\ Finished(p, "concept_by_kernel") =>
              /\ KernelRows(req[p]) = {} <=> resp[p].status = 404
              /\ resp[p].status \in {200, 404}
              /\ resp[p].status = 200 =>
                    /\ resp[p].body.total_lemmas = Cardinality(KernelRows(req[p]))
                    /\ resp[p].body.total_lemmas >= 1
                    /\ Len(resp[p].body.languages) >= 1

\* The kernel_word exists in the corpus but not in the language asked for:
\* the answer is 404.
C8_Witness ==
    /\ Finished(1, "concept_by_kernel")
    /\ \E row \in store : row.kernel_word = req[1].kernel_word
    /\ KernelRows(req[1]) = {}
    /\ resp[1].status = 404

InFlight == {p \in Procs : pc[p] \notin {"idle", "done"}}

OpenConnections == {p \in Procs : conn[p] = "open"}

\* C10: a request that acquired a connection through get_db has closed it when
\* it is finished, whether with 200, 404, 400 or a store failure; the open
\* connections are never more than the requests in flight and none is open
\* once all requests are finished.
C10_ConnectionsReleased ==
    /\ Cardinality(OpenConnections) <= Cardinality(InFlight)
    /\ \A p \in Procs : pc[p] = "done" => conn[p] \in {"none", "closed"}
    /\ \A p \in Procs : pc[p] = "done" /\ sent[p] # <<>> => conn[p] = "closed"
    /\ InFlight = {} => OpenConnections = {}

\* All requests are finished, one of them with a store failure after its
\* lookup and one with 400, and their connections are closed.
C10_Witness ==
    /\ \A p \in Procs : pc[p] = "done"
    /\ \E p \in Procs :
          resp[p].status = 500 /\ sent[p] # <<>> /\ conn[p] = "closed"
    /\ \E p \in Procs : resp[p].status = 400 /\ conn[p] = "closed"

(***************************************************************************)
(* The store under writes of the system that owns the corpus.              *)
(* get_connection sets neither autocommit nor an isolation level, so the   *)
(* statements of a request run at the store's default, READ COMMITTED:     *)
(* each statement reads the rows committed before it started, which is     *)
(* `store` at the step that executes it.                                   *)
(***************************************************************************)
\* INSERT of a lemma the view lacks.
InsertLemma ==
    \E i \in 1..MaxRows :
        /\ \A row \in store : row.lemma_id # i
        /\ store' = store \cup {ViewRow(i)}

\* DELETE of a lemma.
DeleteLemma == \E row \in store : store' = store \ {row}

\* UPDATE of a lemma: its kernel_word is set to NULL.
ClearKernel ==
    \E row \in store :
        /\ row.kernel_word # None
        /\ store' = (store \ {row}) \cup {[row EXCEPT !.kernel_word = None]}

\* A write committed while a request is being served.
ExternalWrite ==
    /\ \E p \in Procs : pc[p] \notin {"idle", "done"}
    /\ InsertLemma \/ DeleteLemma \/ ClearKernel
    /\ UNCHANGED <<pureVars, pc, req, conn, loc, sent, resp, history>>

WriteRequests ==
    ParallelRequests
    \cup {r \in SearchRequests :
            /\ r.lang_prefix = None /\ r.search = None
            /\ r.sort_by = "lemma_id" /\ r.sort_dir = "asc"}
    \cup {r \in OtherPagedRequests :
            r.endpoint = "lemmas_by_kernel" /\ r.kernel_word = Some("good")}

\* One request served while the corpus is written.
NextWrites ==
    \/ \E r \in WriteRequests : Begin(1, r) \/ ConnectFails(1, r)
    \/ Handle(1)
    \/ ExternalWrite

SpecWrites == InitIdle /\ [][NextWrites]_vars

\* C11: in the answer of a paged request, total is the number of rows that
\* match the predicates in the store state the results were read from, and
\* results is the slice [offset, offset + page_size) of that many rows, also
\* when rows are inserted or deleted between the count and the list.  (No
\* write follows the list statement of the one request, so `store` in a
\* finished state is the state the results were read from.)
C11_TotalAndResultsAgree ==
    (pc[1] = "done" /\ resp[1].status = 200
     /\ req[1].endpoint \in PagedEndpoints) =>
        LET b == Build(req[1])
        IN  /\ resp[1].body.total = CountResult(store, b.count_sql, b.params)
            /\ Len(resp[1].body.results) = Expected(req[1], resp[1].body.total)

BucketsWith(languages, id) ==
    {i \in DOMAIN languages :
        \E j \in DOMAIN languages[i].lemmas : languages[i].lemmas[j].lemma_id = id}

\* C12: a 200 of GET /lemmas/{id}/concept holds the focus lemma: total_lemmas
\* >= 1, languages is not empty, and the lemma of id focus_lemma_id is in the
\* bucket of its own language, also when lemmas are modified or deleted
\* between the lookup and the grouping query.
C12_ConceptHoldsFocus ==
    (pc[1] = "done" /\ resp[1].status = 200
     /\ req[1].endpoint = "lemma_concept") =>
        LET body == resp[1].body
        IN  /\ body.total_lemmas >= 1
            /\ body.languages # <<>>
            /\ BucketsWith(body.languages, body.focus_lemma_id) # {}
            /\ \A i \in BucketsWith(body.languages, body.focus_lemma_id) :
                  body.languages[i].language.prefix =
                      ViewRow(body.focus_lemma_id).lang_prefix

====
